---- MODULE Spec2Model ----
(***************************************************************************)
(* A model of the AI Gmail sorter: the text pipeline (createVocabulary,    *)
(* textToSequence), the trainer (trainModel and the training script), the  *)
(* Classifier (load, predict) and the webhook dispatcher of the server.    *)
(*                                                                         *)
(* Text is a sequence of one-character strings.  JavaScript values that    *)
(* can end up in an encoded sequence are tagged records (Num, Undefined,   *)
(* ObjectConstructor, ObjectPrototype), because a property lookup on a     *)
(* plain object also finds what Object.prototype defines.                  *)
(***************************************************************************)
EXTENDS Integers, Sequences, FiniteSets, TLC

\* ------------------------------------------------------------------ bounds

\* Most whitespace-separated words in a generated input text.
MaxWords == 2
\* Most emails in a training corpus.
MaxEmails == 2
\* Most training runs in one behaviour.
MaxRuns == 1
\* Most webhook requests in one behaviour.
MaxRequests == 2
\* The long input texts have MAX_SEQUENCE_LENGTH - MaxOver .. + MaxOver tokens.
MaxOver == 1

\* ------------------------------------------------------- program constants

VOCAB_SIZE == 5000
MAX_SEQUENCE_LENGTH == 100

\* --------------------------------------------------------------- characters

UpperCase ==
  <<"A","B","C","D","E","F","G","H","I","J","K","L","M",
    "N","O","P","Q","R","S","T","U","V","W","X","Y","Z">>

LowerCase ==
  <<"a","b","c","d","e","f","g","h","i","j","k","l","m",
    "n","o","p","q","r","s","t","u","v","w","x","y","z">>

Digits == <<"0","1","2","3","4","5","6","7","8","9">>

Range(s) == { s[i] : i \in DOMAIN s }

\* \s of a JavaScript regular expression, on the characters used here.
IsSpace(c) == c \in {" ", "\n", "\t"}

\* \w of a JavaScript regular expression: [A-Za-z0-9_].
IsWordChar(c) == c \in Range(UpperCase) \cup Range(LowerCase) \cup Range(Digits) \cup {"_"}

LowerChar(c) ==
  IF c \in Range(UpperCase)
    THEN LowerCase[CHOOSE i \in DOMAIN UpperCase : UpperCase[i] = c]
    ELSE c

\* String.prototype.toLowerCase
ToLowerCase(text) == [i \in DOMAIN text |-> LowerChar(text[i])]

\* text.toLowerCase().replace(/[^\w\s]/g, "")
KeepWordOrSpace(c) == IsWordChar(c) \/ IsSpace(c)

CleanText(text) == SelectSeq(ToLowerCase(text), KeepWordOrSpace)

\* The maximal runs of non-whitespace characters of text[lo..hi], in order,
\* by halving: a run that crosses the middle is joined from its two parts.
RECURSIVE Runs(_, _, _)
Runs(text, lo, hi) ==
  IF lo > hi THEN <<>>
  ELSE IF lo = hi THEN (IF IsSpace(text[lo]) THEN <<>> ELSE << <<text[lo]>> >>)
  ELSE LET mid == (lo + hi) \div 2
           left == Runs(text, lo, mid)
           right == Runs(text, mid + 1, hi)
       IN IF IsSpace(text[mid]) \/ IsSpace(text[mid + 1])
            THEN left \o right
            ELSE SubSeq(left, 1, Len(left) - 1)
                   \o << left[Len(left)] \o right[1] >>
                   \o SubSeq(right, 2, Len(right))

\* cleanedText.split(/\s+/).filter((token) => token.length > 0): split leaves
\* the pieces between the whitespace runs, with an empty piece where the text
\* starts or ends with whitespace (or is empty), and the filter drops those;
\* what remains are the maximal runs of non-whitespace characters.
Tokenize(text) == LET cleanedText == CleanText(text) IN Runs(cleanedText, 1, Len(cleanedText))

\* text.replace(/\s+/g, replacement)
RECURSIVE ReplaceSpaceRuns(_, _, _, _, _)
ReplaceSpaceRuns(text, replacement, i, inSpace, acc) ==
  IF i > Len(text) THEN acc
  ELSE IF IsSpace(text[i])
    THEN IF inSpace
           THEN ReplaceSpaceRuns(text, replacement, i + 1, TRUE, acc)
           ELSE ReplaceSpaceRuns(text, replacement, i + 1, TRUE, acc \o replacement)
    ELSE ReplaceSpaceRuns(text, replacement, i + 1, FALSE, Append(acc, text[i]))

\* String.prototype.trim
RECURSIVE TrimStart(_)
TrimStart(text) ==
  IF text # <<>> /\ IsSpace(Head(text)) THEN TrimStart(Tail(text)) ELSE text

RECURSIVE TrimEnd(_)
TrimEnd(text) ==
  IF text # <<>> /\ IsSpace(text[Len(text)])
    THEN TrimEnd(SubSeq(text, 1, Len(text) - 1))
    ELSE text

Trim(text) == TrimEnd(TrimStart(text))

\* --------------------------------------------------------- JavaScript values

Num(n) == [type |-> "number", value |-> n]
Undefined == [type |-> "undefined", value |-> 0]
\* Object.prototype.constructor, the function Object.
ObjectConstructor == [type |-> "function", value |-> 0]
\* Object.prototype itself, what obj["__proto__"] reads.
ObjectPrototype == [type |-> "object", value |-> 0]

\* ToBoolean on the values above.
Truthy(v) == v.type \in {"function", "object"} \/ (v.type = "number" /\ v.value # 0)

\* a || b
OrElse(a, b) == IF Truthy(a) THEN a ELSE b

Constructor == <<"c","o","n","s","t","r","u","c","t","o","r">>
DunderProto == <<"_","_","p","r","o","t","o","_","_">>

PAD == <<"<","P","A","D",">">>
UNK == <<"<","U","N","K",">">>

\* vocabulary[token] on a plain object (an object literal, or what JSON.parse
\* returns): an own property, else what the prototype chain holds.  Of the
\* names Object.prototype defines only these two are spelled in lower-case
\* word characters, so only they can be a token.
GetProperty(vocabulary, token) ==
  IF token \in DOMAIN vocabulary THEN Num(vocabulary[token])
  ELSE IF token = Constructor THEN ObjectConstructor
  ELSE IF token = DunderProto THEN ObjectPrototype
  ELSE Undefined

\* ---------------------------------------------------------- createVocabulary

Min(a, b) == IF a <= b THEN a ELSE b

RECURSIVE CorpusTokens(_, _)
CorpusTokens(emails, i) ==
  IF i > Len(emails) THEN <<>>
  ELSE Tokenize(emails[i].content) \o CorpusTokens(emails, i + 1)

\* wordCounts[token] = (wordCounts[token] || 0) + 1 over all tokens: the keys
\* in insertion order and the count of each.  wordCounts is a plain object:
\* wordCounts["__proto__"] reads Object.prototype, which is truthy, so the
\* right-hand side is the string "[object Object]1", and the assignment goes
\* to the __proto__ setter, which ignores a value that is neither an object
\* nor null: the token never becomes a key.  (For "constructor" the count
\* would be a string and the comparator of the sort NaN; no corpus here
\* holds that word.)
RECURSIVE CountWords(_, _, _, _)
CountWords(tokens, i, keys, counts) ==
  IF i > Len(tokens) THEN [keys |-> keys, counts |-> counts]
  ELSE IF tokens[i] = DunderProto
    THEN CountWords(tokens, i + 1, keys, counts)
  ELSE IF tokens[i] \in DOMAIN counts
    THEN CountWords(tokens, i + 1, keys,
                    [counts EXCEPT ![tokens[i]] = counts[tokens[i]] + 1])
    ELSE CountWords(tokens, i + 1, Append(keys, tokens[i]),
                    [t \in DOMAIN counts \cup {tokens[i]} |->
                       IF t = tokens[i] THEN 1 ELSE counts[t]])

EmptyCounts == [t \in {} |-> 0]

DigitValue(c) == (CHOOSE i \in DOMAIN Digits : Digits[i] = c) - 1

RECURSIVE NumericValue(_)
NumericValue(token) ==
  IF token = <<>> THEN 0
  ELSE 10 * NumericValue(SubSeq(token, 1, Len(token) - 1)) + DigitValue(token[Len(token)])

\* A canonical array index ("0", "7", "10", not "07"): Object.keys lists such
\* keys first, in ascending numeric order, whatever their insertion order.
IsArrayIndex(token) ==
  /\ token # <<>>
  /\ Len(token) <= 9
  /\ \A i \in DOMAIN token : token[i] \in Range(Digits)
  /\ (Len(token) > 1 => token[1] # "0")

NotArrayIndex(token) == ~IsArrayIndex(token)

RECURSIVE AscendingIndexKeys(_)
AscendingIndexKeys(S) ==
  IF S = {} THEN <<>>
  ELSE LET m == CHOOSE x \in S : \A y \in S : NumericValue(x) <= NumericValue(y)
       IN <<m>> \o AscendingIndexKeys(S \ {m})

\* Object.keys(wordCounts)
ObjectKeys(keys) ==
  AscendingIndexKeys({ k \in Range(keys) : IsArrayIndex(k) }) \o SelectSeq(keys, NotArrayIndex)

\* One step of a stable sort by descending count: w goes behind every word
\* that does not count less.
InsertByCount(sorted, w, counts) ==
  LET n == Cardinality({ j \in DOMAIN sorted : counts[sorted[j]] >= counts[w] })
  IN SubSeq(sorted, 1, n) \o <<w>> \o SubSeq(sorted, n + 1, Len(sorted))

\* Object.keys(wordCounts).sort((a, b) => wordCounts[b] - wordCounts[a]);
\* Array.prototype.sort is stable.
RECURSIVE SortByCount(_, _, _, _)
SortByCount(keys, i, counts, sorted) ==
  IF i > Len(keys) THEN sorted
  ELSE SortByCount(keys, i + 1, counts, InsertByCount(sorted, keys[i], counts))

\* sortedWords.slice(0, VOCAB_SIZE - 2)
TopWords(sortedWords) == SubSeq(sortedWords, 1, Min(Len(sortedWords), VOCAB_SIZE - 2))

IndexOf(seq, x) == CHOOSE i \in DOMAIN seq : seq[i] = x

createVocabulary(emails) ==
  LET wordCounts == CountWords(CorpusTokens(emails, 1), 1, <<>>, EmptyCounts)
      sortedWords == SortByCount(ObjectKeys(wordCounts.keys), 1, wordCounts.counts, <<>>)
      topWords == TopWords(sortedWords)
  IN [t \in {PAD, UNK} \cup Range(topWords) |->
        IF t = PAD THEN 0
        ELSE IF t = UNK THEN 1
        ELSE IndexOf(topWords, t) + 1]

\* ------------------------------------------------ padSequence, textToSequence

\* while (padded.length < maxLength) padded.push(paddingValue)
PadTo(padded, maxLength, paddingValue) ==
  [i \in 1..maxLength |-> IF i <= Len(padded) THEN padded[i] ELSE paddingValue]

padSequence(sequence, maxLength, paddingValue) ==
  IF Len(sequence) >= maxLength
    THEN SubSeq(sequence, 1, maxLength)
    ELSE PadTo(sequence, maxLength, paddingValue)

\* (token) => vocabulary[token] || vocabulary["<UNK>"]
TokenId(vocabulary, token) ==
  OrElse(GetProperty(vocabulary, token), GetProperty(vocabulary, UNK))

textToSequence(text, vocabulary) ==
  LET tokens == Tokenize(text)
      sequence == [i \in DOMAIN tokens |-> TokenId(vocabulary, tokens[i])]
  IN padSequence(sequence, MAX_SEQUENCE_LENGTH, Num(0))

\* ------------------------------------------------------------------- inputs

\* config.ts: LABELS_TO_TRAIN
LABELS_TO_TRAIN == <<"Primary", "Promotions", "Social">>

\* Training emails, their contents as getEmailsForLabel leaves them
\* (whitespace runs collapsed to one space, trimmed): "a b a", "B! c" and
\* "10 7 !!".  None holds a name that Object.prototype defines.
Emails ==
  { [content |-> <<"a"," ","b"," ","a">>, label |-> "Primary"],
    [content |-> <<"B","!"," ","c">>, label |-> "Promotions"],
    [content |-> <<"1","0"," ","7"," ","!","!">>, label |-> "Primary"] }

SeqUpTo(S, n) == UNION { [1..k -> S] : k \in 0..n }

\* The training corpora, the empty one included.
Corpora == SeqUpTo(Emails, MaxEmails)

\* Words of the texts to encode: in some vocabulary ("a", "c"), upper case
\* with punctuation ("B!"), in no vocabulary ("z"), punctuation only ("!"),
\* and a name Object.prototype defines ("constructor").
TextWords ==
  { <<"a">>, <<"c">>, <<"B","!">>, <<"z">>, <<"!">>, Constructor }

RECURSIVE JoinWords(_, _)
JoinWords(words, separator) ==
  IF words = <<>> THEN <<>>
  ELSE IF Len(words) = 1 THEN words[1]
  ELSE words[1] \o separator \o JoinWords(Tail(words), separator)

Repeat(piece, k) == [i \in 1..(k * Len(piece)) |-> piece[((i - 1) % Len(piece)) + 1]]

ShortTexts == { JoinWords(ws, <<" ">>) : ws \in SeqUpTo(TextWords, MaxWords) }

\* k times "a " and then "c": k + 1 tokens, around MAX_SEQUENCE_LENGTH.
LongTexts ==
  { Repeat(<<"a"," ">>, k) \o <<"c">> :
      k \in (MAX_SEQUENCE_LENGTH - 1 - MaxOver)..(MAX_SEQUENCE_LENGTH - 1 + MaxOver) }

\* " a\n\tB " : whitespace at both ends and a run of two kinds inside.
SpacedText == <<" ","a","\n","\t","B"," ">>

Texts == ShortTexts \cup LongTexts \cup {SpacedText}

\* -------------------------------------------------------------------- state

VARIABLES
  encPc,          \* the encoder run: "start", "vocabulary", "encoded"
  encEmails,      \* the corpus the vocabulary is built from
  encText,        \* the text to encode
  encVocabulary,  \* createVocabulary(encEmails), once built
  encSequence     \* textToSequence(encText, encVocabulary), once encoded

encVars == <<encPc, encEmails, encText, encVocabulary, encSequence>>

VARIABLES
  modelDir,       \* whether ./model exists
  vocabFile,      \* ./model/vocabulary.json
  modelFile,      \* ./model/model.json (with its weights)
  labelsFile      \* ./model/labels.json

storeVars == <<modelDir, vocabFile, modelFile, labelsFile>>

VARIABLES
  trainPc,         \* where trainModel (or the training script) stands
  trainEmails,     \* the emails trainModel was called with
  trainRun,        \* the number of this training run (it marks what the run writes)
  trainVocabulary, \* trainModel's local vocabulary
  trainOutcome,    \* how the run ended
  storeBefore      \* the artifact store when the run began

trainVars == <<trainPc, trainEmails, trainRun, trainVocabulary, trainOutcome, storeBefore>>

VARIABLES
  alive,          \* whether the server process runs
  initPc,         \* where initializeApp stands
  gmail,          \* the module's gmail client: "undefined" or "client"
  clsModel,       \* classifier.model
  clsVocabulary,  \* classifier.vocabulary
  clsLabels,      \* classifier.labels
  applied,        \* the <<message id, label name>> pairs messages.modify added
  req             \* the webhook requests, by number

classifierVars == <<clsModel, clsVocabulary, clsLabels>>

processVars == <<alive, initPc, gmail, clsModel, clsVocabulary, clsLabels>>

serverVars == <<processVars, applied, req>>

VARIABLES
  prepEmail,      \* the message both paths are given (what messages.get answers)
  prepContent     \* what getEmailContent returned for it, once called

prepVars == <<prepEmail, prepContent>>

vars == <<encVars, storeVars, trainVars, serverVars, prepVars>>

\* ------------------------------------------------------- the artifact store

\* A file of ./model: whether it exists, the training run that wrote it
\* (0: none), and what it holds.
NoFile == [present |-> FALSE, run |-> 0, data |-> <<>>]
File(run, data) == [present |-> TRUE, run |-> run, data |-> data]

Store == [dir |-> modelDir, vocab |-> vocabFile, model |-> modelFile, labels |-> labelsFile]

StoreEmpty ==
  /\ modelDir = FALSE
  /\ vocabFile = NoFile
  /\ modelFile = NoFile
  /\ labelsFile = NoFile

\* [...new Set(labels)]: the distinct labels in first-occurrence order.
RECURSIVE UniqueLabels(_, _, _)
UniqueLabels(emails, i, acc) ==
  IF i > Len(emails) THEN acc
  ELSE IF emails[i].label \in Range(acc)
    THEN UniqueLabels(emails, i + 1, acc)
    ELSE UniqueLabels(emails, i + 1, Append(acc, emails[i].label))

\* What model.save persists, as far as the server can tell: the number of
\* output units, createModel(uniqueLabels.length).
TrainedModel(emails) == [numClasses |-> Len(UniqueLabels(emails, 1, <<>>))]

\* The corpus of an earlier, completed training run.
PreviousEmails ==
  << [content |-> <<"a"," ","b"," ","a">>, label |-> "Primary"],
     [content |-> <<"B","!"," ","c">>, label |-> "Promotions"] >>

\* The store a completed run 0 on PreviousEmails left.
StoreComplete ==
  /\ modelDir = TRUE
  /\ vocabFile = File(0, createVocabulary(PreviousEmails))
  /\ modelFile = File(0, TrainedModel(PreviousEmails))
  /\ labelsFile = File(0, UniqueLabels(PreviousEmails, 1, <<>>))

\* No encoder run, no training run.
EncIdle ==
  /\ encPc = "idle"
  /\ encEmails = <<>>
  /\ encText = <<>>
  /\ encVocabulary = <<>>
  /\ encSequence = <<>>

TrainIdle ==
  /\ trainPc = "idle"
  /\ trainEmails = <<>>
  /\ trainRun = 0
  /\ trainVocabulary = <<>>
  /\ trainOutcome = "none"
  /\ storeBefore = Store

\* ------------------------------------------------------------ the mail API

Requests == 1..MaxRequests

\* What gmail.users.history.list answers: it throws, or data.history, a list
\* of history records, each with its messagesAdded (message ids; "" is a
\* message without id).  A missing list and an empty one are both <<>>: the
\* handler treats them alike.
HistoryThrows == [threw |-> TRUE, history |-> <<>>]
HistoryOf(records) == [threw |-> FALSE, history |-> records]

HistoryResponses ==
  { HistoryThrows,
    HistoryOf(<<>>),
    HistoryOf(<< <<>> >>),
    HistoryOf(<< <<"m1">> >>),
    HistoryOf(<< <<"m1", "m2">> >>),
    HistoryOf(<< <<>>, <<"m2">> >>),
    HistoryOf(<< <<"">> >>) }

\* A message part: its mimeType, its body data (decoded; <<>> when there is
\* none) and its parts (<<>> when there are none).
Part(mimeType, data, parts) == [mimeType |-> mimeType, data |-> data, parts |-> parts]

\* What gmail.users.messages.get answers: it throws, or email.data (absent,
\* or a payload with a Subject header and parts).
EmailThrows == [threw |-> TRUE, hasData |-> FALSE, subject |-> <<>>, parts |-> <<>>]
EmailNoData == [threw |-> FALSE, hasData |-> FALSE, subject |-> <<>>, parts |-> <<>>]
Email(subject, parts) == [threw |-> FALSE, hasData |-> TRUE, subject |-> subject, parts |-> parts]

EmailResponses ==
  { EmailThrows,
    EmailNoData,
    \* no Subject, no parts
    Email(<<>>, <<>>),
    \* Subject "Hi", text/plain "a b"
    Email(<<"H","i">>, << Part("text/plain", <<"a"," ","b">>, <<>>) >>),
    \* no Subject; multipart/alternative of text/html "x" and text/plain " c\n"
    Email(<<>>, << Part("multipart/alternative", <<>>,
                        << Part("text/html", <<"x">>, <<>>),
                           Part("text/plain", <<" ","c","\n">>, <<>>) >>) >>) }

\* parseEmailBody: the data of the first text/plain part with data, looking
\* into the parts of a part before going on to the next one.
RECURSIVE ParseEmailBodyFrom(_, _)
ParseEmailBodyFrom(parts, i) ==
  IF i > Len(parts) THEN <<>>
  ELSE IF parts[i].mimeType = "text/plain" /\ parts[i].data # <<>>
    THEN parts[i].data
    ELSE LET body == ParseEmailBodyFrom(parts[i].parts, 1)
         IN IF body # <<>> THEN body ELSE ParseEmailBodyFrom(parts, i + 1)

parseEmailBody(parts) == ParseEmailBodyFrom(parts, 1)

\* A string | null.
NullContent == [isNull |-> TRUE, text |-> <<>>]
Content(text) == [isNull |-> FALSE, text |-> text]

\* getEmailContent: null when messages.get throws or has no data, else
\* `${subject} ${body}`.replace(/\s+/g, "").trim()
getEmailContent(email) ==
  IF email.threw \/ ~email.hasData THEN NullContent
  ELSE LET body == parseEmailBody(email.parts)
       IN Content(Trim(ReplaceSpaceRuns(email.subject \o <<" ">> \o body, <<>>, 1, FALSE, <<>>)))

\* No message is being prepared.
PrepIdle ==
  /\ prepEmail = EmailNoData
  /\ prepContent = [called |-> FALSE, content |-> NullContent]

\* ----------------------------------------------------------- the Classifier

\* A field of the Classifier: null, or what load() put there.
Null == [set |-> FALSE, data |-> <<>>]
Loaded(data) == [set |-> TRUE, data |-> data]

\* A guard that looks at the model alone.
NotLoadedModelOnly(model, vocabulary, labels) == ~model.set

\* if (!this.model || !this.vocabulary || !this.labels)
NotLoaded(model, vocabulary, labels) == ~model.set \/ ~vocabulary.set \/ ~labels.set

\* What a call of predict comes to: it returns null, returns a label, returns
\* undefined (an index beyond the labels) or throws; forward tells whether
\* model.predict ran.
ReturnsNull == [kind |-> "null", label |-> "", forward |-> "none"]
Throws(forward) == [kind |-> "throws", label |-> "", forward |-> forward]
ReturnsLabel(label) == [kind |-> "label", label |-> label, forward |-> "ran"]
ReturnsUndefined == [kind |-> "undefined", label |-> "", forward |-> "ran"]
NotCalled == [kind |-> "none", label |-> "", forward |-> "none"]

\* Classifier.predict(emailContent), as the set of its possible outcomes: the
\* forward pass is TensorFlow's, so the index it yields is any output unit,
\* and it may throw.  textToSequence on a null vocabulary and indexing null
\* labels throw a TypeError.
predict(model, vocabulary, labels, emailContent) ==
  IF NotLoaded(model, vocabulary, labels) THEN {ReturnsNull}
  ELSE IF ~vocabulary.set THEN {Throws("none")}
  ELSE {Throws("failed")} \cup
       { IF ~labels.set THEN Throws("ran")
         ELSE IF predictedIndex + 1 \in DOMAIN labels.data
           THEN ReturnsLabel(labels.data[predictedIndex + 1])
           ELSE ReturnsUndefined :
         predictedIndex \in 0..(model.data.numClasses - 1) }

\* ------------------------------------------------------------- the server

\* The handler's answers, c.json(...): the body and the status.
Ack(status, success, message, predictedLabel) ==
  [json |-> TRUE, status |-> status, success |-> success,
   message |-> message, predictedLabel |-> predictedLabel]

AckNoNewMessages == Ack(200, TRUE, "No new messages in history.", "")
AckNoMessageId == Ack(200, TRUE, "Message ID missing.", "")
AckContentFailed == Ack(200, FALSE, "Content fetch failed.", "")
AckPredictionFailed == Ack(200, FALSE, "Prediction failed.", "")
AckLabelled(predictedLabel) == Ack(200, TRUE, "", predictedLabel)

\* What the framework answers for an error no handler caught: a 500 with a
\* plain text body.
UnhandledAck ==
  [json |-> FALSE, status |-> 500, success |-> FALSE,
   message |-> "Internal Server Error", predictedLabel |-> ""]

\* catch (error) { return c.json({ success: false, error: ... }, 500) }
CatchAck == Ack(500, FALSE, "Internal Server Error", "")

\* A webhook request: where its handler stands, what it was sent and was
\* answered by the mail API, what the handler computed, the calls it made
\* and its acknowledgments.  ready: initializeApp had completed when the
\* handler called history.list; readyAtPredict: when it called predict.
NewRequest ==
  [pc |-> "idle", payloadOk |-> FALSE, historyId |-> 0, ready |-> FALSE,
   resolved |-> FALSE, history |-> HistoryOf(<<>>), messageId |-> "",
   fetched |-> FALSE, email |-> EmailNoData, content |-> NullContent,
   predicted |-> NotCalled, readyAtPredict |-> FALSE,
   historyCalls |-> 0, contentCalls |-> 0, predictCalls |-> 0,
   applyCalls |-> <<>>, acks |-> <<>>]

\* The decoded Pub/Sub message of a request: it does not parse, or it
\* carries the checkpoint (the handler's historyId).
Payloads == { [ok |-> FALSE, historyId |-> 0], [ok |-> TRUE, historyId |-> 1], [ok |-> TRUE, historyId |-> 2] }

ServerOff ==
  /\ alive = FALSE
  /\ initPc = "off"
  /\ gmail = "undefined"
  /\ clsModel = Null
  /\ clsVocabulary = Null
  /\ clsLabels = Null
  /\ applied = {}
  /\ req = [r \in Requests |-> NewRequest]

\* The module has been evaluated: initializeApp awaits
\* getAuthenticatedClient and the server takes requests.
ServerStarted ==
  /\ alive = TRUE
  /\ initPc = "authenticating"
  /\ gmail = "undefined"
  /\ clsModel = Null
  /\ clsVocabulary = Null
  /\ clsLabels = Null
  /\ applied = {}
  /\ req = [r \in Requests |-> NewRequest]

\* process.exit(1)
Exit ==
  /\ alive' = FALSE
  /\ initPc' = "exited"
  /\ UNCHANGED <<gmail, clsModel, clsVocabulary, clsLabels>>

\* getAuthenticatedClient resolves; gmail is set and classifier.load() calls
\* tf.loadLayersModel.
Authenticated ==
  /\ alive /\ initPc = "authenticating"
  /\ gmail' = "client"
  /\ initPc' = "loadModel"
  /\ UNCHANGED <<alive, clsModel, clsVocabulary, clsLabels>>
  /\ UNCHANGED <<applied, req, storeVars, trainVars, encVars, prepVars>>

\* loadCredentials cannot read the credentials file.
AuthenticationExits ==
  /\ alive /\ initPc = "authenticating"
  /\ Exit
  /\ UNCHANGED <<applied, req, storeVars, trainVars, encVars, prepVars>>

\* this.model = await tf.loadLayersModel(MODEL_PATH)
LoadModel ==
  /\ alive /\ initPc = "loadModel"
  /\ IF modelFile.present
       THEN /\ clsModel' = Loaded(modelFile.data)
            /\ initPc' = "readVocabulary"
            /\ UNCHANGED <<alive, gmail, clsVocabulary, clsLabels>>
       ELSE Exit
  /\ UNCHANGED <<applied, req, storeVars, trainVars, encVars, prepVars>>

\* this.vocabulary = JSON.parse(await fs.readFile(VOCAB_PATH, "utf8"))
ReadVocabulary ==
  /\ alive /\ initPc = "readVocabulary"
  /\ IF vocabFile.present
       THEN /\ clsVocabulary' = Loaded(vocabFile.data)
            /\ initPc' = "readLabels"
            /\ UNCHANGED <<alive, gmail, clsModel, clsLabels>>
       ELSE Exit
  /\ UNCHANGED <<applied, req, storeVars, trainVars, encVars, prepVars>>

\* const labelsData = await fs.readFile(LABELS_PATH, "utf8"): the file is
\* read and nothing is assigned; load() and initializeApp return.
ReadLabels ==
  /\ alive /\ initPc = "readLabels"
  /\ IF labelsFile.present
       THEN /\ initPc' = "initialized"
            /\ UNCHANGED <<alive, gmail, clsModel, clsVocabulary, clsLabels>>
       ELSE Exit
  /\ UNCHANGED <<applied, req, storeVars, trainVars, encVars, prepVars>>

\* return c.json(...)
Respond(request, ack) == [request EXCEPT !.pc = "done", !.acks = Append(@, ack)]

\* The handler from the arrival of a request to its call of history.list:
\* the payload that does not parse and the gmail that is still undefined
\* throw, and the catch answers.
Receive(r, payload) ==
  /\ alive /\ req[r].pc = "idle"
  /\ \A q \in Requests : q < r => req[q].pc # "idle"
  /\ LET request == [req[r] EXCEPT !.payloadOk = payload.ok,
                                   !.historyId = payload.historyId,
                                   !.ready = (initPc = "initialized")]
     IN req' = [req EXCEPT ![r] =
                  IF ~payload.ok \/ gmail = "undefined"
                    THEN Respond(request, CatchAck)
                    ELSE [request EXCEPT !.pc = "resolving", !.historyCalls = @ + 1]]
  /\ UNCHANGED <<processVars, applied, storeVars, trainVars, encVars, prepVars>>

\* historyResponse.data.history?.[0]?.messagesAdded
AddedMessages(history) == IF history = <<>> THEN <<>> ELSE history[1]

\* The early return taken out.
NoAddedMessagesUnchecked(addedMessages) == FALSE

\* if (!addedMessages || addedMessages.length === 0)
NoAddedMessages(addedMessages) == addedMessages = <<>>

\* history.list answers; the handler picks the first added message and calls
\* getEmailContent, which calls messages.get.
HistoryReturns(r, response) ==
  /\ alive /\ req[r].pc = "resolving"
  /\ LET request == [req[r] EXCEPT !.resolved = TRUE, !.history = response]
         addedMessages == AddedMessages(response.history)
     IN req' = [req EXCEPT ![r] =
                  IF response.threw THEN Respond(request, CatchAck)
                  ELSE IF NoAddedMessages(addedMessages)
                    THEN Respond(request, AckNoNewMessages)
                  \* addedMessages[0].message of nothing: a TypeError
                  ELSE IF addedMessages = <<>> THEN Respond(request, CatchAck)
                  ELSE IF addedMessages[1] = "" THEN Respond(request, AckNoMessageId)
                  ELSE [request EXCEPT !.messageId = addedMessages[1],
                                       !.pc = "fetching",
                                       !.contentCalls = @ + 1]]
  /\ UNCHANGED <<processVars, applied, storeVars, trainVars, encVars, prepVars>>

\* A check for null alone.
ContentMissingNullOnly(content) == content.isNull

\* if (!content)
ContentMissing(content) == content.isNull \/ content.text = <<>>

\* How applyLabelToEmail goes: labels.list throws, the label is not among the
\* account's labels, messages.modify throws, or the label is added.  It
\* catches what is thrown.
ApplyOutcomes == {"listThrows", "labelNotFound", "modifyThrows", "modified"}

applyLabelToEmail(messageId, labelName, outcome) ==
  IF outcome = "modified" THEN applied \cup {<<messageId, labelName>>} ELSE applied

\* messages.get answers; the handler goes on to its answer: the content
\* check, predict, and with a label applyLabelToEmail.  (applyLabelToEmail
\* awaits the mail API and touches nothing of the server.)
EmailReturns(r, response) ==
  /\ alive /\ req[r].pc = "fetching"
  /\ LET content == getEmailContent(response)
         request == [req[r] EXCEPT !.fetched = TRUE, !.email = response, !.content = content]
     IN IF ContentMissing(content)
          THEN /\ req' = [req EXCEPT ![r] = Respond(request, AckContentFailed)]
               /\ applied' = applied
          ELSE \E predictedLabel \in predict(clsModel, clsVocabulary, clsLabels, content.text) :
                 LET predicted == [request EXCEPT !.predicted = predictedLabel,
                                                  !.predictCalls = @ + 1,
                                                  !.readyAtPredict = (initPc = "initialized")]
                 IN IF predictedLabel.kind = "throws"
                      THEN /\ req' = [req EXCEPT ![r] = Respond(predicted, CatchAck)]
                           /\ applied' = applied
                    ELSE IF predictedLabel.kind # "label"
                      THEN /\ req' = [req EXCEPT ![r] = Respond(predicted, AckPredictionFailed)]
                           /\ applied' = applied
                    ELSE \E outcome \in ApplyOutcomes :
                           /\ applied' = applyLabelToEmail(request.messageId, predictedLabel.label, outcome)
                           /\ req' = [req EXCEPT ![r] =
                                        Respond([predicted EXCEPT !.applyCalls =
                                                   Append(@, <<request.messageId, predictedLabel.label>>)],
                                                AckLabelled(predictedLabel.label))]
  /\ UNCHANGED <<processVars, storeVars, trainVars, encVars, prepVars>>

\* The artifact directories a server can start on: what training runs from
\* an empty directory leave, completed or stopped after any write.
StoreAfterTraining ==
  /\ modelDir = TRUE
  /\ vocabFile = File(0, createVocabulary(PreviousEmails))
  /\ modelFile \in {NoFile, File(0, TrainedModel(PreviousEmails))}
  /\ labelsFile \in {NoFile, File(0, UniqueLabels(PreviousEmails, 1, <<>>))}
  /\ labelsFile.present => modelFile.present

Init ==
  /\ PrepIdle
  /\ StoreEmpty \/ StoreAfterTraining
  /\ ServerStarted
  /\ TrainIdle
  /\ EncIdle

Next ==
  \/ Authenticated
  \/ AuthenticationExits
  \/ LoadModel
  \/ ReadVocabulary
  \/ ReadLabels
  \/ \E r \in Requests, payload \in Payloads : Receive(r, payload)
  \/ \E r \in Requests, response \in HistoryResponses : HistoryReturns(r, response)
  \/ \E r \in Requests, response \in EmailResponses : EmailReturns(r, response)

Spec == Init /\ [][Next]_vars

\* ------------------------------------------------ the dispatcher's properties

\* The ids of the messages a history response reports as added.
AddedIds(history) ==
  UNION { Range(history[i]) : i \in DOMAIN history } \ {""}

\* The response reports no added message at all.
NoNewItems(response) ==
  ~response.threw /\ \A i \in DOMAIN response.history : response.history[i] = <<>>

\* How many applyLabelToEmail calls, over all requests, were for message id.
ApplyCount(id) ==
  Cardinality({ <<q, i>> \in Requests \X (1..MaxRequests) :
                  i \in DOMAIN req[q].applyCalls /\ req[q].applyCalls[i][1] = id })

\* The handler got the content of a message and it is not empty.
GotContent(r) == req[r].fetched /\ ~req[r].content.isNull /\ req[r].content.text # <<>>

\* C1: when the server has finished initializing and a webhook event arrives
\* whose history lookup returns one newly added message m1 and whose content
\* fetch returns non-empty text, the dispatcher calls predict on that text,
\* calls applyLabel exactly once with m1 and the label predict returned, and
\* answers with a success acknowledgment carrying that label.
C1_LabelledOnce ==
  \A r \in Requests :
    ( /\ req[r].pc = "done"
      /\ req[r].ready
      /\ req[r].history = HistoryOf(<< <<"m1">> >>)
      /\ GotContent(r)
      /\ req[r].predicted.kind # "throws" )
    => /\ req[r].predictCalls = 1
       /\ req[r].predicted.kind = "label"
       /\ req[r].applyCalls = << <<"m1", req[r].predicted.label>> >>
       /\ req[r].acks = << AckLabelled(req[r].predicted.label) >>

\* C2: over any sequence of webhook events every newly added item receives
\* exactly one classification-and-label action: no item covered by a
\* processed notification (one whose lookup and content fetch worked) is
\* left without an applyLabel call, and none gets more than one.
C2_EachItemLabelledOnce ==
  \A r \in Requests :
    ( /\ req[r].pc = "done"
      /\ GotContent(r)
      /\ req[r].predicted.kind # "throws" )
    => \A id \in AddedIds(req[r].history.history) : ApplyCount(id) = 1

\* C3: when the lookup yields no new item, the dispatcher ends Done with the
\* success/no-op acknowledgment and makes no getDocumentContent, predict or
\* applyLabel call; a second event with the same checkpoint and still no new
\* item ends the same way.
C3_NoNewItemsNoOp ==
  /\ \A r \in Requests :
       (req[r].resolved /\ NoNewItems(req[r].history))
       => /\ req[r].pc = "done"
          /\ req[r].acks = <<AckNoNewMessages>>
          /\ req[r].contentCalls = 0
          /\ req[r].predictCalls = 0
          /\ req[r].applyCalls = <<>>
  /\ \A r, q \in Requests :
       ( /\ req[r].resolved /\ NoNewItems(req[r].history)
         /\ req[q].resolved /\ NoNewItems(req[q].history)
         /\ req[r].historyId = req[q].historyId )
       => req[r].acks = req[q].acks /\ applied = {}

\* Two events with the same checkpoint both found no new item.
C3_Witness ==
  /\ req[1].resolved /\ NoNewItems(req[1].history) /\ req[1].pc = "done"
  /\ req[2].resolved /\ NoNewItems(req[2].history) /\ req[2].pc = "done"
  /\ req[1].historyId = req[2].historyId
  /\ req[2].acks = <<AckNoNewMessages>>

\* C4: applyLabel is invoked only after the content fetch returned non-empty
\* text and predict returned a label; when the content fetch fails or yields
\* empty content the event ends with the content failure and neither predict
\* nor applyLabel is called; when predict returns null the event ends with
\* the prediction failure and applyLabel is not called.
C4_LabelOnlyAfterContentAndPrediction ==
  \A r \in Requests :
    /\ req[r].applyCalls # <<>> => (GotContent(r) /\ req[r].predicted.kind = "label")
    /\ (req[r].fetched /\ ~GotContent(r))
       => /\ req[r].pc = "done"
          /\ req[r].acks = <<AckContentFailed>>
          /\ req[r].predictCalls = 0
          /\ req[r].applyCalls = <<>>
    /\ req[r].predicted.kind = "null"
       => /\ req[r].pc = "done"
          /\ req[r].acks = <<AckPredictionFailed>>
          /\ req[r].applyCalls = <<>>

\* One event ended on empty (not null) content, another on a null prediction.
C4_Witness ==
  /\ req[1].pc = "done" /\ req[1].fetched
  /\ ~req[1].content.isNull /\ req[1].content.text = <<>>
  /\ req[1].acks = <<AckContentFailed>>
  /\ req[2].pc = "done" /\ GotContent(2)
  /\ req[2].predicted.kind = "null"
  /\ req[2].acks = <<AckPredictionFailed>>

\* predict was called for request r before load() had succeeded.
PredictedBeforeLoaded(r) == req[r].predictCalls > 0 /\ ~req[r].readyAtPredict

C6_ReadyPredictsLabel ==
  \A r \in Requests :
    (req[r].predictCalls > 0 /\ req[r].readyAtPredict) =>
      \/ /\ req[r].predicted.kind = "label"
         /\ req[r].predicted.label \in Range(labelsFile.data)
      \/ req[r].predicted.forward = "failed"

\* Every handler that has returned answered once, with a JSON body.
OneStructuredAck ==
  \A r \in Requests :
    IF req[r].pc = "done"
      THEN /\ Len(req[r].acks) = 1
           /\ req[r].acks[1].json
           /\ req[r].acks[1].status \in {200, 500}
      ELSE req[r].acks = <<>>

\* C8: a failure while handling one webhook event never terminates the
\* serving process: the handler ends the event with exactly one structured
\* acknowledgment, and no step of a handler changes the process (it stays
\* alive, with the same gmail client and classifier), so that the next
\* event is handled as if the failed one had not occurred.
C8_FailuresContained ==
  /\ []OneStructuredAck
  /\ [][req' # req => UNCHANGED processVars]_vars

\* The first event failed in the catch block, the second was handled after it.
C8_Witness ==
  /\ alive
  /\ req[1].pc = "done" /\ req[1].acks = <<CatchAck>> /\ req[1].resolved
  /\ req[2].pc = "done" /\ req[2].acks = <<AckPredictionFailed>>

\* ------------------------------------------------------------- the trainer

\* trainModel without its empty check.
NoTrainingDataUnchecked(emails) == FALSE

\* if (emails.length === 0)
NoTrainingData(emails) == Len(emails) = 0

LabelIndex(label) == CHOOSE i \in DOMAIN LABELS_TO_TRAIN : LABELS_TO_TRAIN[i] = label

\* What the training script hands to trainModel: the emails of each label of
\* LABELS_TO_TRAIN in turn.
FetchedCorpora ==
  { c \in Corpora :
      \A i, j \in DOMAIN c : i < j => LabelIndex(c[i].label) <= LabelIndex(c[j].label) }

TrainStopped == trainPc \in {"idle", "returned", "failed"}

\* trainModel(emails) up to its first await: the empty check, then
\* createVocabulary and the call of fs.mkdir.
TrainModelBegin(emails) ==
  /\ trainEmails' = emails
  /\ IF NoTrainingData(emails)
       THEN /\ trainPc' = "returned"
            /\ trainOutcome' = "NoTrainingData"
            /\ trainVocabulary' = <<>>
       ELSE /\ trainPc' = "mkdir"
            /\ trainOutcome' = "none"
            /\ trainVocabulary' = createVocabulary(emails)

\* A caller of the exported trainModel, with any corpus.
CallTrainModel(emails) ==
  /\ TrainStopped
  /\ trainRun < MaxRuns
  /\ trainRun' = trainRun + 1
  /\ storeBefore' = Store
  /\ TrainModelBegin(emails)
  /\ UNCHANGED <<storeVars, encVars, prepVars, serverVars>>

\* The training script's main, from the fetched emails on: it returns when
\* there are none and calls trainModel otherwise.
RunTrainingScript ==
  /\ TrainStopped
  /\ trainRun < MaxRuns
  /\ trainRun' = trainRun + 1
  /\ storeBefore' = Store
  /\ \E allEmails \in FetchedCorpora :
       IF Len(allEmails) = 0
         THEN /\ trainEmails' = allEmails
              /\ trainPc' = "returned"
              /\ trainOutcome' = "NoTrainingData"
              /\ trainVocabulary' = <<>>
         ELSE TrainModelBegin(allEmails)
  /\ UNCHANGED <<storeVars, encVars, prepVars, serverVars>>

\* await fs.mkdir(MODEL_DIR, { recursive: true })
Mkdir ==
  /\ trainPc = "mkdir"
  /\ modelDir' = TRUE
  /\ trainPc' = "writeVocabulary"
  /\ UNCHANGED <<vocabFile, modelFile, labelsFile>>
  /\ UNCHANGED <<trainEmails, trainRun, trainVocabulary, trainOutcome, storeBefore, encVars, prepVars, serverVars>>

\* await fs.writeFile(VOCAB_PATH, JSON.stringify(vocabulary))
WriteVocabulary ==
  /\ trainPc = "writeVocabulary"
  /\ vocabFile' = File(trainRun, trainVocabulary)
  /\ trainPc' = "fit"
  /\ UNCHANGED <<modelDir, modelFile, labelsFile>>
  /\ UNCHANGED <<trainEmails, trainRun, trainVocabulary, trainOutcome, storeBefore, encVars, prepVars, serverVars>>

\* the encoding of the emails, createModel and await model.fit(...)
Fit ==
  /\ trainPc = "fit"
  /\ trainPc' = "save"
  /\ UNCHANGED <<storeVars, encVars, prepVars, serverVars>>
  /\ UNCHANGED <<trainEmails, trainRun, trainVocabulary, trainOutcome, storeBefore>>

\* await model.save(MODEL_PATH)
SaveModel ==
  /\ trainPc = "save"
  /\ modelFile' = File(trainRun, TrainedModel(trainEmails))
  /\ trainPc' = "writeLabels"
  /\ UNCHANGED <<modelDir, vocabFile, labelsFile>>
  /\ UNCHANGED <<trainEmails, trainRun, trainVocabulary, trainOutcome, storeBefore, encVars, prepVars, serverVars>>

\* await fs.writeFile(`${MODEL_DIR}/labels.json`, ...), the disposal, the return
WriteLabels ==
  /\ trainPc = "writeLabels"
  /\ labelsFile' = File(trainRun, UniqueLabels(trainEmails, 1, <<>>))
  /\ trainPc' = "returned"
  /\ trainOutcome' = "saved"
  /\ UNCHANGED <<modelDir, vocabFile, modelFile>>
  /\ UNCHANGED <<trainEmails, trainRun, trainVocabulary, storeBefore, encVars, prepVars, serverVars>>

\* The awaited call rejects (trainModel has no try/catch: the rejection
\* reaches main().catch), or the process dies there.
TrainFails ==
  /\ trainPc \in {"mkdir", "writeVocabulary", "fit", "save", "writeLabels"}
  /\ trainPc' = "failed"
  /\ trainOutcome' = "error"
  /\ UNCHANGED <<storeVars, encVars, prepVars, serverVars>>
  /\ UNCHANGED <<trainEmails, trainRun, trainVocabulary, storeBefore>>

InitTrain ==
  /\ PrepIdle
  /\ StoreEmpty \/ StoreComplete
  /\ TrainIdle
  /\ EncIdle
  /\ ServerOff

NextTrain ==
  \/ \E emails \in Corpora : CallTrainModel(emails)
  \/ RunTrainingScript
  \/ Mkdir
  \/ WriteVocabulary
  \/ Fit
  \/ SaveModel
  \/ WriteLabels
  \/ TrainFails

SpecTrain == InitTrain /\ [][NextTrain]_vars

\* A file the current training run wrote.
WrittenByRun(file) == file.present /\ file.run = trainRun

\* C7: at every point of a training run, a crash or error at any step
\* included, the artifact directory holds either no part of the new bundle
\* (the files are those the run found) or all three files of the new run,
\* written from the same corpus; a new vocabulary file without its model and
\* label files is never visible.
C7_BundleAtomic ==
  trainPc # "idle" =>
    \/ /\ vocabFile = storeBefore.vocab
       /\ modelFile = storeBefore.model
       /\ labelsFile = storeBefore.labels
    \/ /\ WrittenByRun(vocabFile) /\ WrittenByRun(modelFile) /\ WrittenByRun(labelsFile)
       /\ vocabFile.data = createVocabulary(trainEmails)
       /\ modelFile.data = TrainedModel(trainEmails)
       /\ labelsFile.data = UniqueLabels(trainEmails, 1, <<>>)

\* C9: training on an empty document collection ends with NoTrainingData
\* and leaves the artifact store as it was: no directory, vocabulary, model
\* or label file is created or overwritten.
C9_EmptyCorpusLeavesStore ==
  (trainPc # "idle" /\ Len(trainEmails) = 0) =>
    /\ trainPc = "returned"
    /\ trainOutcome = "NoTrainingData"
    /\ Store = storeBefore

\* An empty corpus was refused while the store held a complete bundle.
C9_Witness ==
  /\ trainPc = "returned"
  /\ Len(trainEmails) = 0
  /\ trainOutcome = "NoTrainingData"
  /\ storeBefore.vocab.present /\ storeBefore.model.present /\ storeBefore.labels.present
  /\ Store = storeBefore

\* --------------------------------------------------- the encoder on its own

\* trainModel builds a vocabulary only from a non-empty corpus.
InitEncode ==
  /\ PrepIdle
  /\ encPc = "start"
  /\ encEmails \in Corpora \ {<<>>}
  /\ encText \in Texts
  /\ encVocabulary = <<>>
  /\ encSequence = <<>>
  /\ StoreEmpty
  /\ TrainIdle
  /\ ServerOff

BuildVocabulary ==
  /\ encPc = "start"
  /\ encVocabulary' = createVocabulary(encEmails)
  /\ encPc' = "vocabulary"
  /\ UNCHANGED <<encEmails, encText, encSequence, storeVars, trainVars, serverVars, prepVars>>

Encode ==
  /\ encPc = "vocabulary"
  /\ encSequence' = textToSequence(encText, encVocabulary)
  /\ encPc' = "encoded"
  /\ UNCHANGED <<encEmails, encText, encVocabulary, storeVars, trainVars, serverVars, prepVars>>

NextEncode == BuildVocabulary \/ Encode

SpecEncode == InitEncode /\ [][NextEncode]_vars

\* C10: textToSequence(t, V) has length exactly MAX_SEQUENCE_LENGTH and every
\* element is an integer in [0, |V|): the first min(n, MAX_SEQUENCE_LENGTH)
\* tokens mapped to their id in V, or to the OOV id 1 when absent from V,
\* followed only by the padding id 0.
C10_EncodedInRange ==
  encPc = "encoded" =>
    LET tokens == Tokenize(encText)
        size == Cardinality(DOMAIN encVocabulary)
        expected == [i \in 1..MAX_SEQUENCE_LENGTH |->
                       IF i <= Len(tokens)
                         THEN IF tokens[i] \in DOMAIN encVocabulary
                                THEN Num(encVocabulary[tokens[i]])
                                ELSE Num(1)
                         ELSE Num(0)]
    IN /\ Len(encSequence) = MAX_SEQUENCE_LENGTH
       /\ \A i \in 1..Len(encSequence) :
            /\ encSequence[i].type = "number"
            /\ encSequence[i].value \in 0..(size - 1)
       /\ encSequence = expected

\* ------------------------------------------- requests during initializeApp

\* load() has failed: the exit came after gmail was set, from load().
LoadFailed == initPc = "exited" /\ gmail = "client"

\* C12: no webhook request reaches gmail.users.history.list or
\* classifier.predict before initializeApp (authenticate, then load()) has
\* completed, whatever the interleaving, and when load() fails no request
\* is served.
C12_NothingServedBeforeInitialized ==
  /\ \A r \in Requests : req[r].historyCalls > 0 => req[r].ready
  /\ \A r \in Requests : req[r].predictCalls > 0 => req[r].readyAtPredict
  /\ LoadFailed => \A r \in Requests : req[r].historyCalls = 0 /\ req[r].predictCalls = 0

\* ------------------------------------------------ createVocabulary on its own

\* Training emails for the vocabulary: those above, and "__proto__ a __proto__"
\* (a word Object.prototype defines, twice), "c c b" (the later word the more
\* frequent), "7 z z" (an array-index key beside a more frequent word) and
\* "b a" (a tie).
VocabEmails ==
  Emails \cup
  { [content |-> DunderProto \o <<" ","a"," ">> \o DunderProto, label |-> "Social"],
    [content |-> <<"c"," ","c"," ","b">>, label |-> "Promotions"],
    [content |-> <<"7"," ","z"," ","z">>, label |-> "Social"],
    [content |-> <<"b"," ","a">>, label |-> "Primary"] }

VocabCorpora == SeqUpTo(VocabEmails, MaxEmails)

InitVocabulary ==
  /\ PrepIdle
  /\ encPc = "start"
  /\ encEmails \in VocabCorpora \ {<<>>}
  /\ encText = <<>>
  /\ encVocabulary = <<>>
  /\ encSequence = <<>>
  /\ StoreEmpty
  /\ TrainIdle
  /\ ServerOff

NextVocabulary == BuildVocabulary

SpecVocabulary == InitVocabulary /\ [][NextVocabulary]_vars

\* How often the token occurs in the corpus.
Frequency(emails, token) ==
  LET tokens == CorpusTokens(emails, 1)
  IN Cardinality({ i \in DOMAIN tokens : tokens[i] = token })

\* C11: for a non-empty corpus createVocabulary returns an injective map onto
\* 0..V-1 with V <= VOCAB_SIZE, "<PAD>" at 0 and "<UNK>" at 1, the learned
\* tokens at 2..V-1 in non-increasing corpus frequency, no omitted token more
\* frequent than an included one, and the same map for the same corpus.
C11_VocabularyByFrequency ==
  encPc = "vocabulary" =>
    LET V == encVocabulary
        size == Cardinality(DOMAIN V)
        learned == DOMAIN V \ {PAD, UNK}
        omitted == Range(CorpusTokens(encEmails, 1)) \ DOMAIN V
    IN /\ \A s, t \in DOMAIN V : V[s] = V[t] => s = t
       /\ { V[t] : t \in DOMAIN V } = 0..(size - 1)
       /\ size <= VOCAB_SIZE
       /\ PAD \in DOMAIN V /\ V[PAD] = 0
       /\ UNK \in DOMAIN V /\ V[UNK] = 1
       /\ learned \subseteq Range(CorpusTokens(encEmails, 1))
       /\ \A s, t \in learned :
            V[s] < V[t] => Frequency(encEmails, s) >= Frequency(encEmails, t)
       /\ \A o \in omitted : \A t \in learned :
            Frequency(encEmails, o) <= Frequency(encEmails, t)
       /\ V = createVocabulary(encEmails)

\* The same, for the corpora that hold no word Object.prototype defines.
C11_PlainWordsByFrequency ==
  (\A i \in DOMAIN encEmails : DunderProto \notin Range(Tokenize(encEmails[i].content)))
    => C11_VocabularyByFrequency

\* ------------------------------------- one message on the two paths to the encoder

\* The messages: a Subject (none, "Hi", "Re: a") and one text/plain part (no
\* data, or words separated by a space or by an empty line).
PrepSubjects == { <<>>, <<"H","i">>, <<"R","e",":"," ","a">> }

PrepBodies ==
  { JoinWords(ws, separator) :
      ws \in SeqUpTo({ <<"a">>, <<"B","!">>, <<"c">> }, MaxWords),
      separator \in { <<" ">>, <<"\n","\n">> } }

PrepEmails ==
  { Email(subject, << Part("text/plain", body, <<>>) >>) :
      subject \in PrepSubjects, body \in PrepBodies }

\* getEmailsForLabel, for one fetched email: nothing when it has no body, else
\* content: `${subject} ${body}`.replace(/\s+/g, " ").trim()
TrainingDataOf(email, labelOrCategory) ==
  LET body == parseEmailBody(email.parts)
  IN IF body = <<>> THEN <<>>
     ELSE << [content |-> Trim(ReplaceSpaceRuns(email.subject \o <<" ">> \o body,
                                                 <<" ">>, 1, FALSE, <<>>)),
              label |-> labelOrCategory] >>

InitPrepare ==
  /\ prepEmail \in PrepEmails
  /\ prepContent = [called |-> FALSE, content |-> NullContent]
  /\ encPc = "fetching"
  /\ encEmails = <<>>
  /\ encText = <<>>
  /\ encVocabulary = <<>>
  /\ encSequence = <<>>
  /\ StoreEmpty
  /\ TrainIdle
  /\ ServerOff

\* The training script fetches the message under one of its labels; with no
\* training data it stops before trainModel.
PushTrainingData(labelOrCategory) ==
  /\ encPc = "fetching"
  /\ encEmails' = TrainingDataOf(prepEmail, labelOrCategory)
  /\ encPc' = IF encEmails' = <<>> THEN "noTrainingData" ELSE "start"
  /\ UNCHANGED <<encText, encVocabulary, encSequence, storeVars, trainVars, serverVars, prepVars>>

\* The webhook handler fetches the message.
GetEmailContent ==
  /\ ~prepContent.called
  /\ prepContent' = [called |-> TRUE, content |-> getEmailContent(prepEmail)]
  /\ UNCHANGED <<prepEmail, encVars, storeVars, trainVars, serverVars>>

NextPrepare ==
  \/ \E labelOrCategory \in Range(LABELS_TO_TRAIN) : PushTrainingData(labelOrCategory)
  \/ BuildVocabulary
  \/ GetEmailContent

SpecPrepare == InitPrepare /\ [][NextPrepare]_vars

\* C13: for every message the tokens the encoder is given at inference
\* (getEmailContent, then textToSequence in predict) are the tokens of the
\* same message at training (getEmailsForLabel, then createVocabulary and
\* textToSequence in trainModel), so that both paths encode it to the same
\* sequence under the same vocabulary.
C13_SameTextOnBothPaths ==
  (encPc = "vocabulary" /\ prepContent.called /\ ~prepContent.content.isNull) =>
    LET atTraining == encEmails[1].content
        atInference == prepContent.content.text
    IN /\ Tokenize(atInference) = Tokenize(atTraining)
       /\ textToSequence(atInference, encVocabulary) = textToSequence(atTraining, encVocabulary)

====
